---- MODULE Spec2Model ----
(***************************************************************************)
(* A model of the ThreadPool of src/pools/ThreadPool.ts together with the  *)
(* worker script it runs in every worker thread (src/utils/types.ts,       *)
(* lines 40-170).                                                          *)
(*                                                                         *)
(* The pool manager runs on one event loop: every handler below is one     *)
(* macrotask of that loop together with the microtasks it leaves behind    *)
(* (the continuations of `await`), so each is one atomic action.  Each     *)
(* worker thread is a separate execution context that talks to the manager *)
(* over two FIFO channels (inbox: manager -> worker, outbox: worker ->     *)
(* manager).                                                               *)
(***************************************************************************)
EXTENDS Integers, Sequences, FiniteSets, TLC

(***************************************************************************)
(* Configuration and bounds                                                *)
(***************************************************************************)

\* options.numThreads: the number of slots of the pool.
NumThreads == 2

\* Calls of executeTask that are accepted (task ids 1..MaxTasks).
MaxTasks == 2

\* Events of the environment that are followed in one run: a fault of a
\* worker, a worker that ends by itself, an uncaught exception inside a
\* worker, a tick of the health-check interval.
MaxEvents == 1

\* Calls of shutdown().
MaxShutdowns == 2

\* Calls of executeTask that are refused because the pool is shutting down.
MaxRefused == 1

\* What a computation can throw: error.message of the thrown Error.  The
\* empty string is the message of `new Error()`.
ErrorMessages == {"", "boom"}

\* Date.now() - startTime of one task, in ms.
ExecutionTimes == {1}

\* heapUsed after - heapUsed before of one task.
MemoryDeltas == {1}

\* Exit codes of a worker that ends by itself (process.exit(code) inside the
\* computation).  A worker stopped by terminate() or by a fault exits with 1.
ExitCodes == {0, 1}

\* Calls of executeBatch.
MaxBatches == 1

\* Calls of getMetrics().
MaxSnapshots == 1

\* The argument list [x] of a call of executeTask, as its one argument x.
SingleArgs == {1}

\* Calls of executeTask that are accepted in the runs that follow the order of
\* the replies of one worker (task ids 1..MaxOrderedTasks).
MaxOrderedTasks == 3

\* The argument lists of those calls.
OrderedArgs == {1, 2}

\* The argsBatch of a call of executeBatch: lists of argument lists.
BatchInputs == {<<1>>, <<1, 2>>, <<2, 1>>}

Slots == 0 .. NumThreads - 1

\* A hole of the `workers` array (an index that holds undefined).
NoWorker == 0

VARIABLES
    workers,         \* this.workers: index -> worker handle (NoWorker: hole)
    workerMetrics,   \* this.workerMetrics: Map index -> WorkerMetrics
    metricsFrom,     \* for each key of workerMetrics: the handle whose
                     \* snapshot is stored (NoWorker: the zero record that
                     \* createWorker stored)
    taskQueue,       \* this.taskQueue: the task ids that have an entry
    timeout,         \* task id -> state of the entry's NodeJS.Timeout
    settlements,     \* task id -> the calls of the entry's resolve/reject
    routed,          \* task id -> the index and handle executeTask chose
    taskIdCounter,   \* this.taskIdCounter
    isShuttingDown,  \* this.isShuttingDown
    recreateAwait,   \* recreateWorker calls suspended at `await terminate()`
    shutdownAwait,   \* shutdown calls suspended at `await Promise.all(...)`
    shutdownsDone,   \* shutdown calls that have returned
    ctx,             \* handle -> the worker thread behind it
    events,          \* events of the environment so far
    shutdownCalls,   \* shutdown() calls so far
    refused,         \* executeTask calls refused so far
    batches,         \* the calls of executeBatch: argsBatch and the task ids
                     \* behind the promises given to Promise.all
    snapshots,       \* the Maps that getMetrics() has returned: for each key
                     \* the record object it holds, as its content (value)
                     \* and whether the live map holds the same object
                     \* (shared)
    healthCheckInterval,  \* the timer that setInterval of initialize() made
    shutdownErrors   \* shutdown() calls that have been rejected

vars == <<workers, workerMetrics, metricsFrom, taskQueue, timeout, settlements,
          routed, taskIdCounter, isShuttingDown, recreateAwait, shutdownAwait,
          shutdownsDone, ctx, events, shutdownCalls, refused, batches,
          snapshots, healthCheckInterval, shutdownErrors>>

(***************************************************************************)
(* Data                                                                    *)
(***************************************************************************)

\* The all-zero WorkerMetrics record.
ZeroMetrics ==
    [totalTasks |-> 0, successfulTasks |-> 0, failedTasks |-> 0,
     totalExecutionTime |-> 0, peakMemoryUsage |-> 0]

Max(a, b) == IF a >= b THEN a ELSE b

\* A JavaScript Map / sparse array as a function; set(k, v).
EmptyMap == [k \in {} |-> 0]

MapSet(m, k, v) == [x \in (DOMAIN m) \cup {k} |-> IF x = k THEN v ELSE m[x]]

\* Array.length of the `workers` array.
Length(arr) == Cardinality(DOMAIN arr)

\* arr[index] = value on a JavaScript array: indices between the old length
\* and `index` become holes.
ArraySet(arr, index, value) ==
    [i \in 0 .. Max(Length(arr) - 1, index) |->
        IF i = index THEN value
        ELSE IF i \in DOMAIN arr THEN arr[i] ELSE NoWorker]

\* arr[index], undefined (NoWorker) outside the array.
ArrayGet(arr, index) == IF index \in DOMAIN arr THEN arr[index] ELSE NoWorker

\* The `result` of a message that has none (undefined).
NoResult == 0

\* Messages manager -> worker.
TaskMsg(id, args) == [type |-> "TASK", id |-> id, args |-> args]

HealthCheckMsg == [type |-> "HEALTH_CHECK", id |-> 0, args |-> 0]

\* Messages worker -> manager.  id = 0 stands for a message without an id;
\* hasError tells whether the message has an `error` field.  `threw` is no
\* field of the message: it marks the replies built by the catch block of the
\* worker's executeTask (the computation threw) and is read by no handler.
ReadyMsg(m) ==
    [type |-> "READY", id |-> 0, hasError |-> FALSE, error |-> "", metrics |-> m,
     threw |-> FALSE, result |-> NoResult]

HealthReply(m) ==
    [type |-> "HEALTH_CHECK", id |-> 0, hasError |-> FALSE, error |-> "",
     metrics |-> m, threw |-> FALSE, result |-> NoResult]

ErrorReport(msg, m) ==
    [type |-> "ERROR", id |-> 0, hasError |-> TRUE, error |-> msg, metrics |-> m,
     threw |-> FALSE, result |-> NoResult]

ResultResponse(id, result, m) ==
    [type |-> "RESPONSE", id |-> id, hasError |-> FALSE, error |-> "",
     metrics |-> m, threw |-> FALSE, result |-> result]

ErrorResponse(id, msg, m, threw) ==
    [type |-> "RESPONSE", id |-> id, hasError |-> TRUE, error |-> msg,
     metrics |-> m, threw |-> threw, result |-> NoResult]

\* A worker thread right after `new Worker(...)`: the script has run up to its
\* last statement, which announces READY with the zero metrics.
NewWorker(index) ==
    [index |-> index, status |-> "live", metrics |-> ZeroMetrics,
     inbox |-> <<>>, running |-> EmptyMap, outbox |-> <<ReadyMsg(ZeroMetrics)>>]

Handles == DOMAIN ctx

(***************************************************************************)
(* The worker script (src/utils/types.ts, lines 72-170)                    *)
(***************************************************************************)

\* What the computation of a task does in the end: it returns a value, it
\* returns a value that postMessage cannot clone, or it throws.  A thrown
\* value is an Error with a message or something that is no Error.
Thrown == [isError : {TRUE}, message : ErrorMessages]
            \cup {[isError |-> FALSE, message |-> ""]}

Outcomes == {[kind |-> "return", thrown |-> [isError |-> FALSE, message |-> ""]],
             [kind |-> "uncloneable", thrown |-> [isError |-> FALSE, message |-> ""]]}
            \cup {[kind |-> "throw", thrown |-> t] : t \in Thrown}

\* The computation of the tasks: x => x * 2.
Compute(args) == args * 2

\* error instanceof Error ? error.message : 'Unknown error'
ReportedMessage(thrown) ==
    IF thrown.isError THEN thrown.message ELSE "Unknown error"

\* The message of the DataCloneError that postMessage throws.
DataCloneMessage == "could not be cloned"

\* executeTask of the worker up to `await fn(...)`: totalTasks++.
StartTask(metrics) == [metrics EXCEPT !.totalTasks = @ + 1]

\* executeTask of the worker after a normal return of the computation.
SucceedTask(metrics, executionTime, memoryUsed) ==
    [metrics EXCEPT !.successfulTasks = @ + 1,
                    !.totalExecutionTime = @ + executionTime,
                    !.peakMemoryUsage = Max(@, memoryUsed)]

\* executeTask of the worker, the catch block.
FailTask(metrics, executionTime) ==
    [metrics EXCEPT !.failedTasks = @ + 1,
                    !.totalExecutionTime = @ + executionTime]

\* process.on('uncaughtException'): failedTasks++.
CountUncaught(metrics) == [metrics EXCEPT !.failedTasks = @ + 1]

\* The worker takes the next message of its inbox: a HEALTH_CHECK is
\* answered at once with the current metrics, a TASK starts executeTask.
WorkerReceive(h) ==
    /\ ctx[h].status = "live"
    /\ ctx[h].inbox # <<>>
    /\ LET m == Head(ctx[h].inbox) IN
         IF m.type = "HEALTH_CHECK"
         THEN ctx' = [ctx EXCEPT ![h].inbox = Tail(@),
                                 ![h].outbox = Append(@, HealthReply(ctx[h].metrics))]
         ELSE ctx' = [ctx EXCEPT ![h].inbox = Tail(@),
                                 ![h].metrics = StartTask(@),
                                 ![h].running = MapSet(@, m.id, m.args)]
    /\ UNCHANGED <<workers, workerMetrics, metricsFrom, taskQueue, timeout,
                   settlements, routed, taskIdCounter, isShuttingDown,
                   recreateAwait, shutdownAwait, shutdownsDone, shutdownCalls,
                   refused, events, batches, snapshots, healthCheckInterval,
                   shutdownErrors>>

\* The reply of the worker to task `id` whose computation ended with `o`.
TaskReply(metrics, id, args, o, executionTime, memoryUsed) ==
    IF o.kind = "throw"
    THEN LET m == FailTask(metrics, executionTime)
         IN [metrics |-> m, msg |-> ErrorResponse(id, ReportedMessage(o.thrown), m, TRUE)]
    ELSE LET m == SucceedTask(metrics, executionTime, memoryUsed)
         IN [metrics |-> m,
             msg |-> IF o.kind = "uncloneable"
                     THEN ErrorResponse(id, DataCloneMessage, m, FALSE)
                     ELSE ResultResponse(id, Compute(args), m)]

\* The computation of a running task ends and the worker posts its reply.
WorkerFinish(h, id, o) ==
    /\ ctx[h].status = "live"
    /\ id \in DOMAIN ctx[h].running
    /\ \E executionTime \in ExecutionTimes, memoryUsed \in MemoryDeltas :
         LET r == TaskReply(ctx[h].metrics, id, ctx[h].running[id], o,
                            executionTime, memoryUsed)
         IN ctx' = [ctx EXCEPT ![h].running =
                                   [i \in (DOMAIN @) \ {id} |-> @[i]],
                               ![h].metrics = r.metrics,
                               ![h].outbox = Append(@, r.msg)]
    /\ UNCHANGED <<workers, workerMetrics, metricsFrom, taskQueue, timeout,
                   settlements, routed, taskIdCounter, isShuttingDown,
                   recreateAwait, shutdownAwait, shutdownsDone, shutdownCalls,
                   refused, events, batches, snapshots, healthCheckInterval,
                   shutdownErrors>>

\* An exception escapes inside the worker (thrown by a callback that a
\* computation left behind, so the worker has started a task before): the
\* uncaughtException handler counts it and reports it; the worker lives on.
WorkerUncaughtException(h, message) ==
    /\ events < MaxEvents
    /\ ctx[h].status = "live"
    /\ ctx[h].metrics.totalTasks > 0
    /\ LET m == CountUncaught(ctx[h].metrics)
       IN ctx' = [ctx EXCEPT ![h].metrics = m,
                             ![h].outbox = Append(@, ErrorReport(message, m))]
    /\ events' = events + 1
    /\ UNCHANGED <<workers, workerMetrics, metricsFrom, taskQueue, timeout,
                   settlements, routed, taskIdCounter, isShuttingDown,
                   recreateAwait, shutdownAwait, shutdownsDone, shutdownCalls,
                   refused, batches, snapshots, healthCheckInterval,
                   shutdownErrors>>

(***************************************************************************)
(* The pool manager (src/pools/ThreadPool.ts)                              *)
(***************************************************************************)

\* The part of the state that createWorker, recreateWorker, terminate and the
\* continuation of shutdown work on, as one record, so that the calls one
\* event makes can be applied one after the other.
Pool ==
    [workers |-> workers, workerMetrics |-> workerMetrics,
     metricsFrom |-> metricsFrom, taskQueue |-> taskQueue,
     recreateAwait |-> recreateAwait, shutdownAwait |-> shutdownAwait,
     shutdownsDone |-> shutdownsDone, ctx |-> ctx, snapshots |-> snapshots]

Commit(p) ==
    /\ workers' = p.workers
    /\ workerMetrics' = p.workerMetrics
    /\ metricsFrom' = p.metricsFrom
    /\ taskQueue' = p.taskQueue
    /\ recreateAwait' = p.recreateAwait
    /\ shutdownAwait' = p.shutdownAwait
    /\ shutdownsDone' = p.shutdownsDone
    /\ ctx' = p.ctx
    /\ snapshots' = p.snapshots

\* The live map gets a new record object for `index`, or loses its entry:
\* the object a snapshot holds for the index is no longer the map's.
Detach(snaps, index) ==
    [i \in DOMAIN snaps |->
        [snaps[i] EXCEPT !.entries =
            [k \in DOMAIN @ |->
                IF k = index THEN [@[k] EXCEPT !.shared = FALSE] ELSE @[k]]]]

\* The record createWorker stores for a new worker.
InitialMetrics == ZeroMetrics

\* createWorker that leaves the record of an index that already has one.
CreateWorkerKeepsMetrics(p, index) ==
    [p EXCEPT !.ctx = Append(@, NewWorker(index)),
              !.workerMetrics = IF index \in DOMAIN @ THEN @
                                ELSE MapSet(@, index, InitialMetrics),
              !.metricsFrom = IF index \in DOMAIN @ THEN @
                              ELSE MapSet(@, index, NoWorker),
              !.snapshots = IF index \in DOMAIN p.workerMetrics THEN @
                            ELSE Detach(@, index),
              !.workers = ArraySet(@, index, Len(p.ctx) + 1)]

\* createWorker(index): a new worker thread, the zero metrics record for the
\* index, the three listeners bound to the index, workers[index] = worker.
CreateWorker(p, index) ==
    [p EXCEPT !.ctx = Append(@, NewWorker(index)),
              !.workerMetrics = MapSet(@, index, InitialMetrics),
              !.metricsFrom = MapSet(@, index, NoWorker),
              !.snapshots = Detach(@, index),
              !.workers = ArraySet(@, index, Len(p.ctx) + 1)]

\* The thread of a worker that was told to stop or that faulted: it computes
\* nothing any more; the messages it has posted are still delivered before
\* its 'exit' event.
Stopped(w, status) ==
    [w EXCEPT !.status = status, !.inbox = <<>>, !.running = EmptyMap]

\* worker.terminate(): asks the thread to stop.  The promise it returns is
\* fulfilled by the 'exit' event, at once for a thread that has exited.
Terminate(p, h) ==
    IF p.ctx[h].status = "live"
    THEN [p EXCEPT !.ctx[h] = Stopped(@, "stopping")]
    ELSE p

\* recreateWorker(workerId) up to its await.  Without a handle at the index,
\* or with one that has exited (the awaited promise is already fulfilled and
\* the continuation is the next microtask), createWorker follows at once.
RecreateWorker(p, workerId) ==
    LET h == ArrayGet(p.workers, workerId) IN
    IF h = NoWorker \/ p.ctx[h].status = "exited"
    THEN CreateWorker(p, workerId)
    ELSE [Terminate(p, h) EXCEPT
             !.recreateAwait = Append(@, [workerId |-> workerId, handle |-> h])]

\* The continuations of the recreateWorker calls that await the exit of h.
RECURSIVE ResumeRecreate(_, _, _)
ResumeRecreate(p, h, waiting) ==
    IF waiting = <<>> THEN p
    ELSE LET r == Head(waiting) IN
         IF r.handle = h
         THEN ResumeRecreate(CreateWorker(p, r.workerId), h, Tail(waiting))
         ELSE ResumeRecreate([p EXCEPT !.recreateAwait = Append(@, r)],
                             h, Tail(waiting))

\* Map.clear() of the live map, as a snapshot sees it.
RECURSIVE DetachAll(_, _)
DetachAll(snaps, indices) ==
    IF indices = {} THEN snaps
    ELSE LET index == CHOOSE i \in indices : TRUE
         IN DetachAll(Detach(snaps, index), indices \ {index})

\* shutdown() after its await: the three tables are emptied.
ClearAll(p) ==
    [p EXCEPT !.workers = EmptyMap, !.workerMetrics = EmptyMap,
              !.metricsFrom = EmptyMap, !.taskQueue = {},
              !.snapshots = DetachAll(@, DOMAIN p.workerMetrics)]

\* A pool that resumes only the shutdown call that has waited longest.
ResumeShutdownFirstOnly(p, waiting) ==
    IF waiting = <<>> THEN p
    ELSE IF \A h \in Head(waiting) : p.ctx[h].status = "exited"
         THEN [ClearAll(p) EXCEPT !.shutdownsDone = @ + 1,
                                  !.shutdownAwait = @ \o Tail(waiting)]
         ELSE [p EXCEPT !.shutdownAwait = @ \o waiting]

\* The continuations of the shutdown calls all of whose promises are
\* fulfilled.
RECURSIVE ResumeShutdown(_, _)
ResumeShutdown(p, waiting) ==
    IF waiting = <<>> THEN p
    ELSE LET awaited == Head(waiting) IN
         IF \A h \in awaited : p.ctx[h].status = "exited"
         THEN ResumeShutdown(
                  [ClearAll(p) EXCEPT !.shutdownsDone = @ + 1], Tail(waiting))
         ELSE ResumeShutdown([p EXCEPT !.shutdownAwait = Append(@, awaited)],
                             Tail(waiting))

\* handleWorkerError(error, workerId)
HandleWorkerError(p, workerId) ==
    IF ~isShuttingDown THEN RecreateWorker(p, workerId) ELSE p

\* An exit listener that also drops the entries of the tasks it had routed to
\* the slot.
HandleWorkerExitDropsPending(p, code, workerId) ==
    IF code # 0 /\ ~isShuttingDown
    THEN RecreateWorker(
             [p EXCEPT !.taskQueue =
                 {id \in @ : routed[id].workerId # workerId}], workerId)
    ELSE p

\* handleWorkerExit(code, workerId)
HandleWorkerExit(p, code, workerId) ==
    IF code # 0 /\ ~isShuttingDown THEN RecreateWorker(p, workerId) ELSE p

\* The 'error' event of worker h: its thread has faulted and is on its way
\* out (its 'exit' event, with code 1, follows).
WorkerError(h) ==
    /\ events < MaxEvents
    /\ ctx[h].status = "live"
    /\ events' = events + 1
    /\ Commit(HandleWorkerError([Pool EXCEPT !.ctx[h] = Stopped(@, "stopping")],
                                ctx[h].index))
    /\ UNCHANGED <<timeout, settlements, routed, taskIdCounter,
                   isShuttingDown, shutdownCalls, refused, batches,
                   healthCheckInterval, shutdownErrors>>

\* The 'exit' event of worker h with exit code `code`, and the microtasks it
\* leaves: first the exit listener of createWorker, then the continuations of
\* the recreateWorker calls that awaited the exit, then those of shutdown.
\* The messages h has posted are delivered before the event.
ExitEvent(h, code) ==
    LET p0 == [Pool EXCEPT !.ctx[h] = Stopped(@, "exited")]
        p1 == HandleWorkerExit(p0, code, ctx[h].index)
        p2 == ResumeRecreate([p1 EXCEPT !.recreateAwait = <<>>], h,
                             p1.recreateAwait)
    IN ResumeShutdown([p2 EXCEPT !.shutdownAwait = <<>>], p2.shutdownAwait)

\* A worker that was told to stop, or that faulted, exits: code 1.
WorkerExit(h) ==
    /\ ctx[h].status = "stopping"
    /\ ctx[h].outbox = <<>>
    /\ Commit(ExitEvent(h, 1))
    /\ UNCHANGED <<timeout, settlements, routed, taskIdCounter,
                   isShuttingDown, shutdownCalls, refused, events, batches,
                   snapshots, healthCheckInterval, shutdownErrors>>

\* A worker ends by itself: a computation it has started calls
\* process.exit(code).
WorkerSelfExit(h, code) ==
    /\ events < MaxEvents
    /\ ctx[h].status = "live"
    /\ ctx[h].metrics.totalTasks > 0
    /\ ctx[h].outbox = <<>>
    /\ events' = events + 1
    /\ Commit(ExitEvent(h, code))
    /\ UNCHANGED <<timeout, settlements, routed, taskIdCounter,
                   isShuttingDown, shutdownCalls, refused, batches,
                   healthCheckInterval, shutdownErrors>>

\* JavaScript truthiness of a string.
Truthy(str) == str # ""

\* `if (response.error)`
ResponseHasError(m) == m.hasError /\ Truthy(m.error)

\* What the caller of a task gets: task.reject(new Error(response.error)) or
\* task.resolve(response.result).
ReplySettlement(m) ==
    IF ResponseHasError(m)
    THEN [kind |-> "TaskExecutionError", message |-> m.error,
          result |-> NoResult]
    ELSE [kind |-> "value", message |-> "", result |-> m.result]

\* reject(new Error(`Task timeout after ...ms`))
TimeoutSettlement ==
    [kind |-> "TaskTimeout", message |-> "Task timeout", result |-> NoResult]

\* A lookup that still finds the entry of a task that was settled.
HasTaskEver(queue, id) == id \in DOMAIN timeout

\* `const task = this.taskQueue.get(response.id); if (task)`
HasTask(queue, id) == id \in queue

\* A handler that forgets clearTimeout.
ClearTimeoutForgotten(state) == state

\* clearTimeout on a timer: an armed timer never fires afterwards.
ClearTimeout(state) == IF state = "armed" THEN "cancelled" ELSE state

\* The live map and the snapshots taken of it.
Metrics == [workerMetrics |-> workerMetrics, snapshots |-> snapshots]

\* updateWorkerMetrics that writes the new counts into the record object the
\* map holds.
UpdateWorkerMetricsInPlace(m, workerId, metrics) ==
    [workerMetrics |-> MapSet(m.workerMetrics, workerId, metrics),
     snapshots |->
        IF workerId \in DOMAIN m.workerMetrics
        THEN [i \in DOMAIN m.snapshots |->
                 [m.snapshots[i] EXCEPT !.entries =
                     [k \in DOMAIN @ |->
                         IF k = workerId /\ @[k].shared
                         THEN [@[k] EXCEPT !.value = metrics] ELSE @[k]]]]
        ELSE m.snapshots]

\* updateWorkerMetrics that stores the counts for every slot of the map.
UpdateWorkerMetricsEverySlot(m, workerId, metrics) ==
    [workerMetrics |->
        [k \in (DOMAIN m.workerMetrics) \cup {workerId} |-> metrics],
     snapshots |-> DetachAll(m.snapshots,
                             (DOMAIN m.workerMetrics) \cup {workerId})]

\* updateWorkerMetrics(workerId, metrics):
\* this.workerMetrics.set(workerId, { ...metrics }), a new record object.
UpdateWorkerMetrics(m, workerId, metrics) ==
    [workerMetrics |-> MapSet(m.workerMetrics, workerId, metrics),
     snapshots |-> Detach(m.snapshots, workerId)]

\* worker.postMessage(msg): a thread that is stopping or has exited receives
\* nothing.
PostMessage(c, h, msg) ==
    IF c[h].status = "live" THEN [c EXCEPT ![h].inbox = Append(@, msg)] ELSE c

\* A listener that stores the metrics of a reply only when the task still
\* has its entry.
HandleWorkerMessageSkipsLate(h) ==
    /\ ctx[h].status # "exited"
    /\ ctx[h].outbox # <<>>
    /\ LET response == Head(ctx[h].outbox)
           workerId == ctx[h].index
       IN /\ ctx' = [ctx EXCEPT ![h].outbox = Tail(@)]
          /\ IF response.type = "HEALTH_CHECK" \/ HasTask(taskQueue, response.id)
             THEN LET m == UpdateWorkerMetrics(Metrics, workerId,
                                               response.metrics)
                  IN /\ workerMetrics' = m.workerMetrics
                     /\ snapshots' = m.snapshots
                     /\ metricsFrom' = MapSet(metricsFrom, workerId, h)
             ELSE UNCHANGED <<workerMetrics, snapshots, metricsFrom>>
          /\ IF response.type # "HEALTH_CHECK" /\ HasTask(taskQueue, response.id)
             THEN /\ timeout' = [timeout EXCEPT ![response.id] = ClearTimeout(@)]
                  /\ settlements' = [settlements EXCEPT ![response.id] =
                                        Append(@, ReplySettlement(response))]
                  /\ taskQueue' = taskQueue \ {response.id}
             ELSE UNCHANGED <<timeout, settlements, taskQueue>>
    /\ UNCHANGED <<workers, routed, taskIdCounter, isShuttingDown,
                   recreateAwait, shutdownAwait, shutdownsDone, shutdownCalls,
                   refused, events, batches, healthCheckInterval,
                   shutdownErrors>>

\* A listener that gives the reply it takes to the task that has waited
\* longest among the pending tasks of the slot.
HandleWorkerMessageByArrival(h) ==
    /\ ctx[h].status # "exited"
    /\ ctx[h].outbox # <<>>
    /\ LET response == Head(ctx[h].outbox)
           workerId == ctx[h].index
           waiting == {id \in taskQueue : routed[id].workerId = workerId}
           oldest == IF waiting = {} THEN 0
                     ELSE CHOOSE id \in waiting :
                              \A other \in waiting : id <= other
       IN /\ ctx' = [ctx EXCEPT ![h].outbox = Tail(@)]
          /\ LET m == UpdateWorkerMetrics(Metrics, workerId, response.metrics)
             IN /\ workerMetrics' = m.workerMetrics
                /\ snapshots' = m.snapshots
          /\ metricsFrom' = MapSet(metricsFrom, workerId, h)
          /\ IF response.type # "HEALTH_CHECK" /\ response.id # 0 /\ oldest # 0
             THEN /\ timeout' = [timeout EXCEPT ![oldest] = ClearTimeout(@)]
                  /\ settlements' = [settlements EXCEPT ![oldest] =
                                        Append(@, ReplySettlement(response))]
                  /\ taskQueue' = taskQueue \ {oldest}
             ELSE UNCHANGED <<timeout, settlements, taskQueue>>
    /\ UNCHANGED <<workers, routed, taskIdCounter, isShuttingDown,
                   recreateAwait, shutdownAwait, shutdownsDone, shutdownCalls,
                   refused, events, batches, healthCheckInterval,
                   shutdownErrors>>

\* The listener handleWorkerMessage(workerId) of worker h takes the next
\* message h has posted.
HandleWorkerMessage(h) ==
    /\ ctx[h].status # "exited"
    /\ ctx[h].outbox # <<>>
    /\ LET response == Head(ctx[h].outbox)
           workerId == ctx[h].index
       IN /\ ctx' = [ctx EXCEPT ![h].outbox = Tail(@)]
          \* updateWorkerMetrics(workerId, response.metrics), on both paths
          /\ LET m == UpdateWorkerMetrics(Metrics, workerId, response.metrics)
             IN /\ workerMetrics' = m.workerMetrics
                /\ snapshots' = m.snapshots
          /\ metricsFrom' = MapSet(metricsFrom, workerId, h)
          /\ IF response.type # "HEALTH_CHECK" /\ HasTask(taskQueue, response.id)
             THEN /\ timeout' = [timeout EXCEPT ![response.id] = ClearTimeout(@)]
                  /\ settlements' = [settlements EXCEPT ![response.id] =
                                        Append(@, ReplySettlement(response))]
                  /\ taskQueue' = taskQueue \ {response.id}
             ELSE UNCHANGED <<timeout, settlements, taskQueue>>
    /\ UNCHANGED <<workers, routed, taskIdCounter, isShuttingDown,
                   recreateAwait, shutdownAwait, shutdownsDone, shutdownCalls,
                   refused, events, batches, healthCheckInterval,
                   shutdownErrors>>

\* Routing that counts the tasks from zero.
RouteFromZero(taskId, length) == IF length = 0 THEN -1 ELSE (taskId - 1) % length

\* taskId % this.workers.length; NaN (no index) for an empty array.
Route(taskId, length) == IF length = 0 THEN -1 ELSE taskId % length

\* executeTask without the check of the flag.
NeverClosed(flag) == FALSE

\* `if (this.isShuttingDown) throw new Error('ThreadPool is shutting down')`
IsClosed(flag) == flag

\* The part of the state that the calls of executeTask work on, as one
\* record, so that the calls one executeBatch makes can be applied one after
\* the other.
Submission ==
    [taskIdCounter |-> taskIdCounter, timeout |-> timeout,
     settlements |-> settlements, taskQueue |-> taskQueue, routed |-> routed,
     ctx |-> ctx]

CommitSubmission(s) ==
    /\ taskIdCounter' = s.taskIdCounter
    /\ timeout' = s.timeout
    /\ settlements' = s.settlements
    /\ taskQueue' = s.taskQueue
    /\ routed' = s.routed
    /\ ctx' = s.ctx

\* A counter that hands out the lowest id that has no entry.
RecycledTaskId(counter) ==
    CHOOSE id \in 1 .. counter + 1 :
        /\ id \notin taskQueue
        /\ \A lower \in 1 .. id - 1 : lower \in taskQueue

\* ++this.taskIdCounter
NextTaskId(counter) == counter + 1

\* executeTask(fn, ...args) on a pool that is not shutting down: the next
\* id, the slot, the timer, the entry, the message to the slot's handle.
Submit(s, args) ==
    LET taskId == NextTaskId(s.taskIdCounter)
        workerId == Route(taskId, Length(workers))
        h == ArrayGet(workers, workerId)
    IN [taskIdCounter |-> taskId,
        timeout |-> MapSet(s.timeout, taskId, "armed"),
        settlements |-> MapSet(s.settlements, taskId, <<>>),
        taskQueue |-> s.taskQueue \cup {taskId},
        routed |-> MapSet(s.routed, taskId,
                          [workerId |-> workerId, handle |-> h]),
        ctx |-> IF h # NoWorker
                THEN PostMessage(s.ctx, h, TaskMsg(taskId, args))
                ELSE s.ctx]

\* executeTask(fn, ...args)
ExecuteTask(args) ==
    IF IsClosed(isShuttingDown)
    THEN /\ refused < MaxRefused
         /\ refused' = refused + 1
         /\ UNCHANGED <<workers, workerMetrics, metricsFrom, taskQueue,
                        timeout, settlements, routed, taskIdCounter,
                        isShuttingDown, recreateAwait, shutdownAwait,
                        shutdownsDone, ctx, shutdownCalls, events, batches,
                        snapshots, healthCheckInterval, shutdownErrors>>
    ELSE /\ taskIdCounter < MaxTasks
         /\ CommitSubmission(Submit(Submission, args))
         /\ UNCHANGED <<workers, workerMetrics, metricsFrom, isShuttingDown,
                        recreateAwait, shutdownAwait, shutdownsDone,
                        shutdownCalls, refused, events, batches, snapshots,
                        healthCheckInterval, shutdownErrors>>

\* executeTask(fn, ...args) on a pool that is not shutting down, by callers
\* that submit up to MaxOrderedTasks tasks.
ExecuteTaskOrdered(args) ==
    /\ ~IsClosed(isShuttingDown)
    /\ taskIdCounter < MaxOrderedTasks
    /\ CommitSubmission(Submit(Submission, args))
    /\ UNCHANGED <<workers, workerMetrics, metricsFrom, isShuttingDown,
                   recreateAwait, shutdownAwait, shutdownsDone, shutdownCalls,
                   refused, events, batches, snapshots, healthCheckInterval,
                   shutdownErrors>>

\* argsBatch.map that collects the promises in reverse.
RECURSIVE MapSubmitReversed(_, _, _)
MapSubmitReversed(s, ids, argsBatch) ==
    IF argsBatch = <<>> THEN [state |-> s, ids |-> ids]
    ELSE LET t == Submit(s, Head(argsBatch))
         IN MapSubmitReversed(t, <<t.taskIdCounter>> \o ids, Tail(argsBatch))

\* argsBatch.map(args => this.executeTask(fn, ...args)): one call of
\* executeTask per argument list, in order; `ids` are the task ids behind the
\* promises of the resulting array.
RECURSIVE MapSubmit(_, _, _)
MapSubmit(s, ids, argsBatch) ==
    IF argsBatch = <<>> THEN [state |-> s, ids |-> ids]
    ELSE LET t == Submit(s, Head(argsBatch))
         IN MapSubmit(t, Append(ids, t.taskIdCounter), Tail(argsBatch))

\* executeBatch(fn, argsBatch).  On a pool that is shutting down every call
\* of executeTask throws and the batch is rejected at once.
ExecuteBatch(argsBatch) ==
    /\ Len(batches) < MaxBatches
    /\ IF IsClosed(isShuttingDown)
       THEN /\ refused < MaxRefused
            /\ refused' = refused + 1
            /\ UNCHANGED <<taskQueue, timeout, settlements, routed,
                           taskIdCounter, ctx, batches>>
       ELSE /\ taskIdCounter + Len(argsBatch) <= MaxTasks
            /\ LET r == MapSubmit(Submission, <<>>, argsBatch)
               IN /\ CommitSubmission(r.state)
                  /\ batches' = Append(batches, [argsBatch |-> argsBatch,
                                                 ids |-> r.ids])
            /\ UNCHANGED refused
    /\ UNCHANGED <<workers, workerMetrics, metricsFrom, isShuttingDown,
                   recreateAwait, shutdownAwait, shutdownsDone, shutdownCalls,
                   events, snapshots, healthCheckInterval, shutdownErrors>>

\* The promise that Promise.all(promises) returns, the promises being those
\* of the tasks `ids`: rejected as soon as one of them is rejected, fulfilled
\* with their values, in the order of `ids`, once all are fulfilled.
PromiseAll(ids) ==
    IF \E k \in DOMAIN ids :
          settlements[ids[k]] # <<>> /\ Head(settlements[ids[k]]).kind # "value"
    THEN [state |-> "rejected", value |-> <<>>]
    ELSE IF \A k \in DOMAIN ids : settlements[ids[k]] # <<>>
         THEN [state |-> "fulfilled",
               value |-> [k \in DOMAIN ids |-> Head(settlements[ids[k]]).result]]
         ELSE [state |-> "pending", value |-> <<>>]

\* A timer callback that removes the entry and forgets to reject.
TimerFireSilent(taskId) ==
    /\ taskId \in DOMAIN timeout
    /\ timeout[taskId] = "armed"
    /\ timeout' = [timeout EXCEPT ![taskId] = "fired"]
    /\ taskQueue' = taskQueue \ {taskId}
    /\ UNCHANGED <<workers, workerMetrics, metricsFrom, settlements, routed,
                   taskIdCounter, isShuttingDown, recreateAwait,
                   shutdownAwait, shutdownsDone, ctx, shutdownCalls, refused,
                   events, batches, snapshots, healthCheckInterval,
                   shutdownErrors>>

\* The callback of the setTimeout of executeTask.
TimerFire(taskId) ==
    /\ taskId \in DOMAIN timeout
    /\ timeout[taskId] = "armed"
    /\ timeout' = [timeout EXCEPT ![taskId] = "fired"]
    /\ taskQueue' = taskQueue \ {taskId}
    /\ settlements' = [settlements EXCEPT ![taskId] = Append(@, TimeoutSettlement)]
    /\ UNCHANGED <<workers, workerMetrics, metricsFrom, routed, taskIdCounter,
                   isShuttingDown, recreateAwait, shutdownAwait,
                   shutdownsDone, ctx, shutdownCalls, refused, events,
                   batches, snapshots, healthCheckInterval, shutdownErrors>>

\* this.workers.forEach(worker => worker.postMessage('HEALTH_CHECK'))
RECURSIVE Broadcast(_, _, _)
Broadcast(c, arr, i) ==
    IF i >= Length(arr) THEN c
    ELSE Broadcast(IF arr[i] # NoWorker THEN PostMessage(c, arr[i], HealthCheckMsg)
                   ELSE c,
                   arr, i + 1)

\* checkWorkersHealth(), a tick of the interval that initialize() starts and
\* that nothing ever clears.
CheckWorkersHealth ==
    /\ healthCheckInterval = "armed"
    /\ events < MaxEvents
    /\ events' = events + 1
    /\ ctx' = IF ~isShuttingDown THEN Broadcast(ctx, workers, 0) ELSE ctx
    /\ UNCHANGED <<workers, workerMetrics, metricsFrom, taskQueue, timeout,
                   settlements, routed, taskIdCounter, isShuttingDown,
                   recreateAwait, shutdownAwait, shutdownsDone, shutdownCalls,
                   refused, batches, snapshots, healthCheckInterval,
                   shutdownErrors>>

\* this.workers.map(worker => worker.terminate())
RECURSIVE TerminateAll(_, _, _)
TerminateAll(p, arr, i) ==
    IF i >= Length(arr) THEN p
    ELSE TerminateAll(IF arr[i] # NoWorker THEN Terminate(p, arr[i]) ELSE p,
                      arr, i + 1)

\* The handles of the array whose threads have not exited: the promises of
\* terminate() that are still open.
OpenTerminations(p, arr) ==
    {arr[i] : i \in {j \in DOMAIN arr :
                        arr[j] # NoWorker /\ p.ctx[arr[j]].status # "exited"}}

\* shutdown() up to its await, and beyond it when nothing is left to await.
Shutdown ==
    /\ shutdownCalls < MaxShutdowns
    /\ shutdownCalls' = shutdownCalls + 1
    /\ isShuttingDown' = TRUE
    /\ timeout' = [id \in DOMAIN timeout |->
                      IF id \in taskQueue THEN ClearTimeout(timeout[id])
                      ELSE timeout[id]]
    /\ LET p == TerminateAll(Pool, workers, 0)
           awaited == OpenTerminations(p, workers)
       IN Commit(ResumeShutdown(p, <<awaited>>))
    /\ UNCHANGED <<settlements, routed, taskIdCounter, refused, events,
                   batches, healthCheckInterval, shutdownErrors>>

(***************************************************************************)
(* The specification                                                       *)
(***************************************************************************)

\* The pool after `new ThreadPool({numThreads: NumThreads})`: initialize()
\* has called createWorker(i) for every index.
RECURSIVE Initialize(_, _)
Initialize(p, i) ==
    IF i >= NumThreads THEN p ELSE Initialize(CreateWorker(p, i), i + 1)

Init ==
    /\ taskIdCounter = 0
    /\ isShuttingDown = FALSE
    /\ timeout = EmptyMap
    /\ settlements = EmptyMap
    /\ routed = EmptyMap
    /\ events = 0
    /\ shutdownCalls = 0
    /\ refused = 0
    /\ batches = <<>>
    /\ snapshots = <<>>
    /\ healthCheckInterval = "armed"
    /\ shutdownErrors = 0
    /\ LET p == Initialize([workers |-> EmptyMap, workerMetrics |-> EmptyMap,
                            metricsFrom |-> EmptyMap, taskQueue |-> {},
                            recreateAwait |-> <<>>, shutdownAwait |-> <<>>,
                            shutdownsDone |-> 0, ctx |-> <<>>,
                            snapshots |-> <<>>], 0)
       IN /\ workers = p.workers
          /\ workerMetrics = p.workerMetrics
          /\ metricsFrom = p.metricsFrom
          /\ taskQueue = p.taskQueue
          /\ recreateAwait = p.recreateAwait
          /\ shutdownAwait = p.shutdownAwait
          /\ shutdownsDone = p.shutdownsDone
          /\ ctx = p.ctx

Next ==
    \/ \E args \in SingleArgs : ExecuteTask(args)
    \/ \E taskId \in 1 .. MaxTasks : TimerFire(taskId)
    \/ CheckWorkersHealth
    \/ Shutdown
    \/ \E h \in Handles : HandleWorkerMessage(h)
    \/ \E h \in Handles : WorkerError(h)
    \/ \E h \in Handles : WorkerExit(h)
    \/ \E h \in Handles, code \in ExitCodes : WorkerSelfExit(h, code)
    \/ \E h \in Handles : WorkerReceive(h)
    \/ \E h \in Handles, o \in Outcomes : \E id \in DOMAIN ctx[h].running :
          WorkerFinish(h, id, o)
    \/ \E h \in Handles, message \in ErrorMessages :
          WorkerUncaughtException(h, message)

Spec == Init /\ [][Next]_vars

\* new Map(this.workerMetrics): a new Map that holds, for every key, the
\* record object the live map holds.
NewMap(map) ==
    [entries |-> [k \in DOMAIN map |-> [shared |-> TRUE, value |-> map[k]]]]

\* getMetrics()
GetMetrics ==
    /\ Len(snapshots) < MaxSnapshots
    /\ snapshots' = Append(snapshots, NewMap(workerMetrics))
    /\ UNCHANGED <<workers, workerMetrics, metricsFrom, taskQueue, timeout,
                   settlements, routed, taskIdCounter, isShuttingDown,
                   recreateAwait, shutdownAwait, shutdownsDone, ctx, events,
                   shutdownCalls, refused, batches, healthCheckInterval,
                   shutdownErrors>>

\* shutdown() when worker.terminate() of the handle of `slot` raises an
\* error: thrown by the call itself (sync), which ends the map at that
\* handle, or as the rejection of the promise it returns, which Promise.all
\* passes on.  Nothing catches it: the error leaves shutdown() at the map or
\* at the await, the call is rejected and the three clears are not reached.
ShutdownTerminateFails(slot, sync) ==
    /\ shutdownCalls < MaxShutdowns
    /\ events < MaxEvents
    /\ slot \in DOMAIN workers
    /\ workers[slot] # NoWorker
    /\ shutdownCalls' = shutdownCalls + 1
    /\ events' = events + 1
    /\ isShuttingDown' = TRUE
    /\ timeout' = [id \in DOMAIN timeout |->
                      IF id \in taskQueue THEN ClearTimeout(timeout[id])
                      ELSE timeout[id]]
    /\ LET asked == IF sync THEN [i \in 0 .. slot - 1 |-> workers[i]]
                    ELSE ArraySet(workers, slot, NoWorker)
       IN Commit(TerminateAll(Pool, asked, 0))
    /\ shutdownErrors' = shutdownErrors + 1
    /\ UNCHANGED <<settlements, routed, taskIdCounter, refused, batches,
                   healthCheckInterval>>

\* The pool with a worker whose terminate() can raise an error.
FaultNext ==
    \/ Next
    \/ \E slot \in Slots, sync \in BOOLEAN : ShutdownTerminateFails(slot, sync)

FaultSpec == Init /\ [][FaultNext]_vars

\* The pool with callers that also use getMetrics.
MetricsNext ==
    \/ Next
    \/ GetMetrics

MetricsSpec == Init /\ [][MetricsNext]_vars

\* The pool with callers that also use executeBatch.
BatchNext ==
    \/ Next
    \/ \E argsBatch \in BatchInputs : ExecuteBatch(argsBatch)

BatchSpec == Init /\ [][BatchNext]_vars

\* The pool with callers that submit enough tasks for one slot to hold two of
\* them, with workers that fault and are replaced, on a pool that is not shut
\* down.
OrderedNext ==
    \/ \E args \in OrderedArgs : ExecuteTaskOrdered(args)
    \/ \E taskId \in 1 .. MaxOrderedTasks : TimerFire(taskId)
    \/ \E h \in Handles : HandleWorkerMessage(h)
    \/ \E h \in Handles : WorkerError(h)
    \/ \E h \in Handles : WorkerExit(h)
    \/ \E h \in Handles : WorkerReceive(h)
    \/ \E h \in Handles, o \in Outcomes : \E id \in DOMAIN ctx[h].running :
          WorkerFinish(h, id, o)

OrderedSpec == Init /\ [][OrderedNext]_vars

\* The event loop runs the callback of every timer that stays armed.
LiveSpec == Spec /\ \A taskId \in 1 .. MaxTasks : WF_vars(TimerFire(taskId))

(***************************************************************************)
(* Properties                                                              *)
(***************************************************************************)

Range(seq) == {seq[i] : i \in DOMAIN seq}

\* The task ids submitted so far.
TaskIds == DOMAIN settlements

Settled(id) == id \in TaskIds /\ settlements[id] # <<>>

\* Task id is somewhere inside worker h: waiting in its inbox, being
\* computed, or answered by a reply h has posted and the manager has not
\* taken yet.
InsideWorker(h, id) ==
    \/ \E m \in Range(ctx[h].inbox) : m.type = "TASK" /\ m.id = id
    \/ id \in DOMAIN ctx[h].running
    \/ \E m \in Range(ctx[h].outbox) : m.id = id

\* The reply to task id has been taken by the manager: the task was sent to
\* a handle that is still alive and holds nothing of it any more.
ReplyProcessed(id) ==
    /\ id \in DOMAIN routed
    /\ routed[id].handle # NoWorker
    /\ ctx[routed[id].handle].status = "live"
    /\ ~InsideWorker(routed[id].handle, id)

\* C1: the caller of a task is settled at most once, over every
\* interleaving of reply, timer, fault, exit, replacement and shutdown: the
\* resolve/reject pair of a task id is called at most once, and a task that
\* has been settled has no entry in the pending table (none is re-created).
C1_SettledAtMostOnce ==
    \A id \in TaskIds :
        /\ Len(settlements[id]) <= 1
        /\ Settled(id) => id \notin taskQueue

\* A task timed out and the late reply of its worker has been taken since.
C1_Witness ==
    \E id \in TaskIds :
        /\ settlements[id] = <<TimeoutSettlement>>
        /\ ReplyProcessed(id)

\* C2: as long as shutdown() is not called, and with timers that fire, every
\* accepted task is settled in the end, whatever happens to its worker.
C2_EverySubmitSettles ==
    \A id \in 1 .. MaxTasks :
        (id \in TaskIds) ~> (Settled(id) \/ isShuttingDown)

\* A task whose message went to a worker that has exited without an answer
\* was settled by its timer, the pool still running.
C2_Witness ==
    \E id \in TaskIds :
        /\ ~isShuttingDown
        /\ settlements[id] = <<TimeoutSettlement>>
        /\ routed[id].handle # NoWorker
        /\ ctx[routed[id].handle].status = "exited"

\* C3: the task with id i goes to the handle that slot i mod NumThreads
\* holds at that moment, and to no other worker, whatever is in flight and
\* whichever handles the slot held before.
C3_RoutingByIdModN ==
    [][taskIdCounter' # taskIdCounter =>
          LET id == taskIdCounter'
              slot == id % NumThreads
              h == workers[slot]
          IN /\ id = taskIdCounter + 1
             /\ routed'[id] = [workerId |-> slot, handle |-> h]
             /\ h # NoWorker
             /\ ctx[h].index = slot
             /\ ctx[h].status = "live" =>
                   \E args \in SingleArgs :
                       ctx'[h].inbox = Append(ctx[h].inbox, TaskMsg(id, args))
             /\ \A g \in Handles \ {h} : ctx'[g] = ctx[g]]_vars

\* Task 2 went to the replacement handle of its slot while task 1 was still
\* pending on the other slot.
C3_Witness ==
    /\ 2 \in TaskIds
    /\ routed[2].handle > NumThreads
    /\ InsideWorker(routed[2].handle, 2)
    /\ 1 \in taskQueue

\* C4: a task is failed with TaskTimeout exactly when its timer has fired;
\* the timer fires only on a task that no reply has settled, and the entry
\* is gone once it has fired; a task that a reply has settled has its timer
\* cancelled, so that it never fires.
C4_TimeoutIffTimerFirst ==
    \A id \in TaskIds :
        /\ (TimeoutSettlement \in Range(settlements[id])) <=> (timeout[id] = "fired")
        /\ timeout[id] = "fired" =>
              /\ id \notin taskQueue
              /\ settlements[id] = <<TimeoutSettlement>>
        /\ (Settled(id) /\ Head(settlements[id]) # TimeoutSettlement) =>
              timeout[id] = "cancelled"

\* One task was settled by its reply, another one by its timer.
C4_Witness ==
    \E id1, id2 \in TaskIds :
        /\ Settled(id1)
        /\ Head(settlements[id1]).kind # "TaskTimeout"
        /\ timeout[id1] = "cancelled"
        /\ timeout[id2] = "fired"

\* Nothing of a submission happens in this step: no id is consumed, no entry
\* and no timer is created, no worker receives a task.
NoSubmissionEffect ==
    /\ taskIdCounter' = taskIdCounter
    /\ taskQueue' \subseteq taskQueue
    /\ DOMAIN timeout' = DOMAIN timeout
    /\ \A id \in DOMAIN timeout : timeout'[id] = "armed" => timeout[id] = "armed"
    /\ \A h \in Handles : Len(ctx'[h].inbox) <= Len(ctx[h].inbox)
    /\ routed' = routed
    /\ DOMAIN settlements' = DOMAIN settlements

\* C5: once shutdown() has set the flag, a call of executeTask fails with
\* PoolClosed and does nothing else, and nothing of a submission happens any
\* more; a call fails this way only after shutdown() has begun.
C5_ClosedAfterShutdown ==
    [][/\ isShuttingDown => NoSubmissionEffect
       /\ refused' # refused =>
             /\ isShuttingDown
             /\ UNCHANGED <<workers, workerMetrics, metricsFrom, taskQueue,
                            timeout, settlements, routed, taskIdCounter,
                            isShuttingDown, recreateAwait, shutdownAwait,
                            shutdownsDone, ctx, events, shutdownCalls>>]_vars

\* A call was refused while shutdown() was still awaiting its workers.
C5_Witness ==
    /\ refused > 0
    /\ shutdownAwait # <<>>
    /\ taskIdCounter < MaxTasks

\* C6: after shutdown() has completed, every worker the pool ever created
\* has been terminated, and the slot list, the metrics table and the pending
\* table are empty.
C6_ShutdownLeavesNothing ==
    shutdownsDone > 0 =>
        /\ \A h \in Handles : ctx[h].status = "exited"
        /\ workers = EmptyMap
        /\ workerMetrics = EmptyMap
        /\ taskQueue = {}

\* The manager takes the next message of worker h in this step.
TakesMessage(h) ==
    /\ ctx[h].outbox # <<>>
    /\ ctx'[h].outbox = Tail(ctx[h].outbox)

\* The computation of a task of worker h ends in this step.
EndsTask(h, id) ==
    /\ id \in DOMAIN ctx[h].running
    /\ ctx'[h].status = "live"
    /\ id \notin DOMAIN ctx'[h].running

\* C7: when the computation of a task throws, the worker counts one more
\* failed task, and when the manager takes the reply while the task is
\* pending, the slot's record shows that count and the caller is rejected
\* with a TaskExecutionError that carries the reported message.
C7_ThrowRejectsCaller ==
    [][\A h \in Handles :
          /\ \A id \in DOMAIN ctx[h].running :
                (EndsTask(h, id) /\ ctx'[h].outbox[Len(ctx'[h].outbox)].threw) =>
                    ctx'[h].metrics.failedTasks = ctx[h].metrics.failedTasks + 1
          /\ (TakesMessage(h) /\ Head(ctx[h].outbox).threw
                /\ Head(ctx[h].outbox).id \in taskQueue) =>
                LET response == Head(ctx[h].outbox) IN
                /\ workerMetrics'[ctx[h].index].failedTasks
                      = response.metrics.failedTasks
                /\ settlements'[response.id] =
                      <<[kind |-> "TaskExecutionError",
                         message |-> response.error,
                         result |-> NoResult]>>]_vars

\* A task is in flight on a slot: it is pending at the manager and was
\* routed to the slot, or it is inside a worker created for the slot.
InFlight(slot) ==
    \/ \E id \in taskQueue : routed[id].workerId = slot
    \/ \E h \in Handles :
          /\ ctx[h].index = slot
          /\ ctx[h].status # "exited"
          /\ \E id \in TaskIds : InsideWorker(h, id)

Balanced(m) == m.totalTasks = m.successfulTasks + m.failedTasks

\* C8: a slot with no task in flight has a balanced record:
\* totalTasks = successfulTasks + failedTasks.
C8_MetricsBalancedAtRest ==
    \A slot \in DOMAIN workerMetrics :
        ~InFlight(slot) => Balanced(workerMetrics[slot])

\* C9: every replacement of the handle of a slot stores the zero record for
\* the slot, and a record that comes from a handle the slot held before its
\* present one carries no counts.
C9_ReplacementResetsMetrics ==
    /\ [](\A slot \in DOMAIN workerMetrics :
             (metricsFrom[slot] # NoWorker
                /\ metricsFrom[slot] < ArrayGet(workers, slot)) =>
                    workerMetrics[slot] = ZeroMetrics)
    /\ [][\A slot \in (DOMAIN workers) \cap (DOMAIN workers') :
             workers'[slot] # workers[slot] =>
                 /\ workerMetrics'[slot] = ZeroMetrics
                 /\ metricsFrom'[slot] = NoWorker]_vars

\* A handle that had reported a finished task has exited and was replaced,
\* and the record of its slot is zero.
C9_Witness ==
    \E h \in Handles :
        /\ ctx[h].status = "exited"
        /\ ctx[h].metrics.successfulTasks + ctx[h].metrics.failedTasks > 0
        /\ ArrayGet(workers, ctx[h].index) > h
        /\ workerMetrics[ctx[h].index] = ZeroMetrics

\* C10: while the pool is running, every slot holds one handle and the
\* thread behind it is live.
C10_SlotsHoldLiveHandles ==
    ~isShuttingDown =>
        \A slot \in Slots :
            /\ ArrayGet(workers, slot) # NoWorker
            /\ ctx[workers[slot]].status = "live"

\* The caller of task id was given the result of the computation: the reply
\* came from the try block of the worker's executeTask, which sends the number
\* the computation returned.
Succeeded(id) ==
    /\ Settled(id)
    /\ Head(settlements[id]).kind = "value"
    /\ Head(settlements[id]).result # NoResult

\* C11: executeBatch makes one submit per argument list, each with an id of
\* its own, and when all of its tasks have succeeded the batch is fulfilled
\* with the results in input order: result k is twice the argument of list k,
\* whichever slots the tasks went to and in whatever order the replies were
\* taken.
C11_BatchResultsInInputOrder ==
    \A b \in DOMAIN batches :
        LET ids == batches[b].ids
            argsBatch == batches[b].argsBatch
        IN /\ Len(ids) = Len(argsBatch)
           /\ \A k \in DOMAIN ids : ids[k] \in TaskIds
           /\ \A j, k \in DOMAIN ids : j # k => ids[j] # ids[k]
           /\ (\A k \in DOMAIN ids : Succeeded(ids[k])) =>
                 PromiseAll(ids) =
                     [state |-> "fulfilled",
                      value |-> [k \in DOMAIN argsBatch |-> 2 * argsBatch[k]]]

\* A batch of two argument lists whose tasks went to different slots is
\* fulfilled with the results of both.
C11_Witness ==
    \E b \in DOMAIN batches :
        /\ batches[b].argsBatch = <<2, 1>>
        /\ routed[batches[b].ids[1]].workerId # routed[batches[b].ids[2]].workerId
        /\ PromiseAll(batches[b].ids) =
              [state |-> "fulfilled", value |-> <<4, 2>>]

\* What a caller reads through a snapshot: for every key the content of the
\* record object the snapshot holds.
Seen(snapshot) ==
    [k \in DOMAIN snapshot.entries |-> snapshot.entries[k].value]

NoReplyToCome(id) ==
    LET h == routed[id].handle IN
    \/ h = NoWorker
    \/ /\ ctx[h].status # "live"
       /\ \A m \in Range(ctx[h].outbox) : m.id # id

\* C13: shutdown() settles no caller: the call cancels the timer of every
\* pending entry and settles nobody, its completion empties the pending table
\* and settles nobody, and a task that is unsettled while the pool is
\* shutting down and whose reply can no longer come stays unsettled for ever.
C13_ShutdownSettlesNobody ==
    [][/\ shutdownCalls' # shutdownCalls =>
             /\ settlements' = settlements
             /\ \A id \in taskQueue : timeout'[id] = "cancelled"
       /\ shutdownsDone' # shutdownsDone =>
             /\ settlements' = settlements
             /\ taskQueue' = {}
       /\ \A id \in TaskIds :
             (isShuttingDown /\ ~Settled(id) /\ NoReplyToCome(id)) =>
                 /\ settlements'[id] = <<>>
                 /\ timeout'[id] = "cancelled"]_vars

\* shutdown() has completed and has left a task unsettled whose worker it
\* terminated before the worker replied.
C13_Witness ==
    \E id \in TaskIds :
        /\ shutdownsDone > 0
        /\ ~Settled(id)
        /\ timeout[id] = "cancelled"
        /\ taskQueue = {}
        /\ routed[id].handle # NoWorker
        /\ ctx[routed[id].handle].status = "exited"
        /\ ctx[routed[id].handle].metrics.totalTasks > 0

\* The state shutdown() leaves behind.
Terminal ==
    /\ isShuttingDown
    /\ workers = EmptyMap
    /\ workerMetrics = EmptyMap
    /\ taskQueue = {}

\* A shutdown call that awaits `awaited` is on its way to completion: every
\* thread it awaits has been told to stop or has exited, and one of them is
\* still to exit, which resumes the call.
Completing(awaited) ==
    /\ \A h \in awaited : ctx[h].status \in {"stopping", "exited"}
    /\ \E h \in awaited : ctx[h].status = "stopping"

\* C14: shutdown() can be called again.  No call fails or is lost: each has
\* completed or awaits threads that are stopping, be it made while an
\* earlier call still awaits or after it; the state a call completes in is
\* the terminal one (flag set, no workers, empty metrics and pending tables);
\* a call made after an earlier call has completed completes at once, and
\* made in the terminal state it changes nothing.
C14_ShutdownIdempotent ==
    /\ [](/\ shutdownCalls = shutdownsDone + Len(shutdownAwait)
          /\ \A i \in DOMAIN shutdownAwait : Completing(shutdownAwait[i]))
    /\ [][/\ shutdownsDone' # shutdownsDone => Terminal'
          /\ (shutdownCalls' # shutdownCalls /\ shutdownsDone > 0) =>
                /\ shutdownsDone' = shutdownsDone + 1
                /\ UNCHANGED <<ctx, timeout, settlements, routed,
                               taskIdCounter, recreateAwait, shutdownAwait>>
                /\ Terminal => UNCHANGED <<workers, workerMetrics, taskQueue,
                                           isShuttingDown>>]_vars

\* Two calls of shutdown() have completed, the workers having run tasks.
C14_Witness ==
    /\ shutdownsDone = 2
    /\ Terminal
    /\ \E h \in Handles : ctx[h].metrics.totalTasks > 0

\* C15: an error that terminate() raises for one handle during shutdown() is
\* swallowed: the call is not rejected, it tells every other handle of the
\* slot list to stop, and once every thread has exited the slot list and the
\* pending table are empty.
C15_TerminateErrorSwallowed ==
    /\ [](/\ shutdownErrors = 0
          /\ (shutdownCalls > 0 /\ \A h \in Handles : ctx[h].status = "exited")
                => (workers = EmptyMap /\ taskQueue = {}))
    /\ [][shutdownCalls' # shutdownCalls =>
             Cardinality({slot \in DOMAIN workers :
                             /\ workers[slot] # NoWorker
                             /\ ctx'[workers[slot]].status = "live"}) <= 1]_vars

\* C16: the health-check timer that initialize() starts is armed exactly as
\* long as shutdown() has not been called: shutdown() cancels it.
C16_HealthTimerStopsAtShutdown ==
    (healthCheckInterval = "armed") <=> ~isShuttingDown

\* C17: every entry of the pending table has a timer that is armed (neither
\* cancelled nor fired), and an entry that is removed without its timer
\* having fired has its timer cancelled in that step, having been armed until
\* then.
C17_EntriesHaveArmedTimers ==
    /\ [](\A id \in taskQueue : id \in DOMAIN timeout /\ timeout[id] = "armed")
    /\ [][\A id \in taskQueue :
             (id \notin taskQueue' /\ timeout'[id] # "fired") =>
                 (timeout[id] = "armed" /\ timeout'[id] = "cancelled")]_vars

\* C18: every message with a task id that the manager takes from a worker
\* overwrites the record of the slot the worker was created for with the
\* metrics of the message, whether the task still has an entry or not; when
\* it has none (its timer has fired), no caller is settled and nothing but
\* the record changes.
C18_LateReplyUpdatesMetricsOnly ==
    [][\A h \in Handles :
          (TakesMessage(h) /\ Head(ctx[h].outbox).type = "RESPONSE") =>
              LET response == Head(ctx[h].outbox)
                  slot == ctx[h].index
              IN /\ slot \in DOMAIN workerMetrics'
                 /\ workerMetrics'[slot] = response.metrics
                 /\ response.id \notin taskQueue =>
                       /\ UNCHANGED <<settlements, timeout, taskQueue,
                                      workers, routed, taskIdCounter,
                                      isShuttingDown>>
                       /\ \A k \in (DOMAIN workerMetrics) \ {slot} :
                             /\ k \in DOMAIN workerMetrics'
                             /\ workerMetrics'[k] = workerMetrics[k]
                       /\ \A g \in Handles \ {h} : ctx'[g] = ctx[g]]_vars

\* The timer of a task has fired, the reply of its worker was taken
\* afterwards, and the record of the slot shows the counts of that reply.
C18_Witness ==
    \E id \in TaskIds :
        /\ settlements[id] = <<TimeoutSettlement>>
        /\ ReplyProcessed(id)
        /\ routed[id].workerId \in DOMAIN workerMetrics
        /\ metricsFrom[routed[id].workerId] = routed[id].handle
        /\ LET m == workerMetrics[routed[id].workerId]
           IN m.successfulTasks + m.failedTasks > 0

\* Task id is pending and its worker is gone without a reply.
Stranded(id) ==
    IF id \in taskQueue THEN NoReplyToCome(id) ELSE FALSE

\* Task id was failed with TaskTimeout.
TimedOut(id) ==
    IF id \in TaskIds THEN settlements[id] = <<TimeoutSettlement>> ELSE FALSE

\* A worker faults, exits or is created in this step.
LifecycleStep ==
    \/ Len(ctx') # Len(ctx)
    \/ \E h \in Handles : ctx'[h].status # ctx[h].status

\* C19: while the pool is running, the fault of a worker, its exit and its
\* replacement leave the pending table, the timers and the callers as they
\* are; a pending task whose worker is gone without a reply is settled by
\* nothing but its own timer, and it is settled with TaskTimeout in the end
\* (unless shutdown() is called first).
C19_ReplacementKeepsPending ==
    /\ [][/\ (LifecycleStep /\ ~isShuttingDown') =>
                UNCHANGED <<taskQueue, timeout, settlements>>
          /\ \A id \in taskQueue :
                (~isShuttingDown /\ NoReplyToCome(id)) =>
                    /\ timeout[id] = "armed"
                    /\ settlements'[id] \in {<<>>, <<TimeoutSettlement>>}]_vars
    /\ \A id \in 1 .. MaxTasks :
          Stranded(id) ~> (TimedOut(id) \/ isShuttingDown)

\* A task that was being computed when its worker faulted was settled by its
\* timer after the worker had been replaced, the pool still running.
C19_Witness ==
    \E id \in TaskIds :
        /\ ~isShuttingDown
        /\ settlements[id] = <<TimeoutSettlement>>
        /\ routed[id].handle # NoWorker
        /\ ctx[routed[id].handle].status = "exited"
        /\ ctx[routed[id].handle].metrics.totalTasks > 0
        /\ ArrayGet(workers, routed[id].workerId) > routed[id].handle
        /\ ctx[ArrayGet(workers, routed[id].workerId)].status = "live"

\* Task id gets its timer in this step: a submit has been accepted with
\* this id.
Assigned(id) ==
    /\ id \in DOMAIN timeout'
    /\ timeout'[id] = "armed"
    /\ id \in DOMAIN timeout => timeout[id] # "armed"

\* C20: task ids are unique for the life of the pool: the ids assigned so far
\* are 1 .. taskIdCounter, every accepted submit gets an id greater than all
\* ids assigned before it, and what belongs to an id assigned earlier (its
\* route, the calls of its resolve/reject) is never given to another submit,
\* whatever has completed, timed out or lost its worker in between.
C20_TaskIdsUnique ==
    /\ [](/\ DOMAIN timeout = 1 .. taskIdCounter
          /\ DOMAIN settlements = 1 .. taskIdCounter
          /\ DOMAIN routed = 1 .. taskIdCounter
          /\ taskQueue \subseteq 1 .. taskIdCounter)
    /\ [][/\ taskIdCounter' >= taskIdCounter
          /\ \A id \in 1 .. taskIdCounter' :
                Assigned(id) <=> id > taskIdCounter
          /\ \A id \in 1 .. taskIdCounter :
                /\ routed'[id] = routed[id]
                /\ Len(settlements'[id]) >= Len(settlements[id])
                /\ id \in taskQueue' => id \in taskQueue]_vars

\* Task 2 was accepted by the replacement of a worker and is pending, task 1
\* being settled and gone from the table.
C20_Witness ==
    /\ taskIdCounter = 2
    /\ Settled(1)
    /\ 1 \notin taskQueue
    /\ 2 \in taskQueue
    /\ routed[2].handle > NumThreads

\* How often task id is inside worker h: as a message of its inbox, as a
\* running computation, as a reply of its outbox.
Copies(h, id) ==
    Cardinality({i \in DOMAIN ctx[h].inbox :
                    ctx[h].inbox[i].type = "TASK" /\ ctx[h].inbox[i].id = id})
    + (IF id \in DOMAIN ctx[h].running THEN 1 ELSE 0)
    + Cardinality({i \in DOMAIN ctx[h].outbox : ctx[h].outbox[i].id = id})

\* C21: replies are matched to callers by task id, not by arrival order.  A
\* task is inside no worker but the one it was sent to, and there once at
\* most; the reply a worker posts when a computation ends carries the id of
\* that task and the result computed from its arguments, whichever of the
\* worker's tasks ends first, and leaves the other tasks running; the reply
\* the manager takes while its task is pending settles the caller of that
\* task with the outcome of the reply, once, and no other caller.
C21_RepliesMatchedById ==
    /\ [](\A id \in TaskIds :
             /\ Len(settlements[id]) <= 1
             /\ \A h \in Handles :
                   /\ Copies(h, id) <= 1
                   /\ Copies(h, id) = 1 => routed[id].handle = h)
    /\ [][\A h \in Handles :
             /\ \A id \in DOMAIN ctx[h].running :
                   EndsTask(h, id) =>
                       LET reply == ctx'[h].outbox[Len(ctx'[h].outbox)] IN
                       /\ ctx'[h].outbox = Append(ctx[h].outbox, reply)
                       /\ reply.id = id
                       /\ ~reply.hasError =>
                             reply.result = Compute(ctx[h].running[id])
                       /\ \A other \in (DOMAIN ctx[h].running) \ {id} :
                             /\ other \in DOMAIN ctx'[h].running
                             /\ ctx'[h].running[other] = ctx[h].running[other]
             /\ (TakesMessage(h) /\ Head(ctx[h].outbox).type = "RESPONSE"
                   /\ Head(ctx[h].outbox).id \in taskQueue) =>
                   LET response == Head(ctx[h].outbox) IN
                   /\ settlements[response.id] = <<>>
                   /\ settlements'[response.id] = <<ReplySettlement(response)>>
                   /\ response.id \notin taskQueue'
                   /\ \A other \in TaskIds \ {response.id} :
                         /\ settlements'[other] = settlements[other]
                         /\ timeout'[other] = timeout[other]
                         /\ other \in taskQueue' <=> other \in taskQueue]_vars

\* Tasks A and B went to the same worker in that order with different
\* arguments; the caller of B has the result of B, and the reply to A, with
\* the result of A, is still to be taken, A being pending.
C21_Witness ==
    \E A, B \in TaskIds :
        /\ A < B
        /\ routed[A].handle # NoWorker
        /\ routed[A].handle = routed[B].handle
        /\ settlements[B] = <<[kind |-> "value", message |-> "",
                               result |-> Compute(2)]>>
        /\ A \in taskQueue
        /\ ctx[routed[A].handle].outbox # <<>>
        /\ LET reply == Head(ctx[routed[A].handle].outbox)
           IN reply.id = A /\ ~reply.hasError /\ reply.result = Compute(1)

\* A worker is created for the slot in this step: the slot is initialized
\* or its handle is replaced.
CreatedFor(slot) ==
    \E h \in (DOMAIN ctx') \ (DOMAIN ctx) : ctx'[h].index = slot

\* C22: between two replacements of a slot, and from its initialization to
\* the first one, the totalExecutionTime of the record stored for the slot
\* never decreases, whatever message the manager takes for the slot.
C22_ExecutionTimeNeverDecreases ==
    [][\A slot \in (DOMAIN workerMetrics) \cap (DOMAIN workerMetrics') :
          ~CreatedFor(slot) =>
              workerMetrics'[slot].totalExecutionTime
                  >= workerMetrics[slot].totalExecutionTime]_vars

\* C23: once shutdown() has set the flag, no worker is created and no record
\* is set to the initial one, whatever fault or exit follows and whichever
\* replacement was awaiting the exit of its old handle when the flag was set.
C23_NoReplacementDuringShutdown ==
    [][isShuttingDown =>
          /\ Len(ctx') = Len(ctx)
          /\ \A slot \in DOMAIN metricsFrom' :
                metricsFrom'[slot] = NoWorker =>
                    /\ slot \in DOMAIN metricsFrom
                    /\ metricsFrom[slot] = NoWorker]_vars

\* The worker threads that are alive.
LiveWorkers == {h \in Handles : ctx[h].status = "live"}

\* C24: one failure of a worker produces one replacement.  No step creates
\* more than one worker for a slot, and while the pool is running every
\* worker thread that is alive is the one its slot refers to, so that no
\* more than NumThreads of them are alive.
C24_OneReplacementPerFailure ==
    /\ [](~isShuttingDown =>
             /\ \A h \in LiveWorkers : ArrayGet(workers, ctx[h].index) = h
             /\ Cardinality(LiveWorkers) <= NumThreads)
    /\ [][\A slot \in Slots :
             Cardinality({h \in (DOMAIN ctx') \ (DOMAIN ctx) :
                             ctx'[h].index = slot}) <= 1]_vars

\* What the pool holds for the task ids other than T, and the counter, are
\* the same after this step.
OtherTasksUntouched(T) ==
    /\ taskIdCounter' = taskIdCounter
    /\ TaskIds' = TaskIds
    /\ routed' = routed
    /\ \A other \in TaskIds \ {T} :
          /\ timeout'[other] = timeout[other]
          /\ settlements'[other] = settlements[other]
          /\ other \in taskQueue' <=> other \in taskQueue

\* The records of the slots other than s are the same after this step.
OtherSlotsUntouched(s) ==
    /\ (DOMAIN workerMetrics') \ {s} = (DOMAIN workerMetrics) \ {s}
    /\ \A k \in (DOMAIN workerMetrics) \ {s} :
          workerMetrics'[k] = workerMetrics[k]

\* C25: task-level events are local.  When the manager takes a reply to task
\* T from a worker of slot s, nothing changes but the record of s and what
\* the pool holds for T; when the timer of T fires, nothing changes but what
\* the pool holds for T.  The records of the other slots, the entries, timers
\* and callers of the other task ids, the counter, the slot list and the
\* flag are the same afterwards.
C25_TaskEventsAreLocal ==
    [][/\ \A h \in Handles :
             (TakesMessage(h) /\ Head(ctx[h].outbox).type = "RESPONSE") =>
                 /\ OtherTasksUntouched(Head(ctx[h].outbox).id)
                 /\ OtherSlotsUntouched(ctx[h].index)
                 /\ UNCHANGED <<workers, isShuttingDown>>
       /\ \A T \in TaskIds :
             (timeout[T] = "armed" /\ timeout'[T] = "fired") =>
                 /\ OtherTasksUntouched(T)
                 /\ UNCHANGED <<workerMetrics, workers, isShuttingDown,
                                ctx>>]_vars

\* Of two tasks of one slot the later one was settled by its reply while the
\* earlier one is pending with its timer armed, and the timer of a task of
\* another slot has fired, the record of that slot being the initial one.
C25_Witness ==
    \E T, other, third \in TaskIds :
        /\ other < T
        /\ routed[T].workerId = routed[other].workerId
        /\ Settled(T)
        /\ Head(settlements[T]).kind = "value"
        /\ metricsFrom[routed[T].workerId] = routed[T].handle
        /\ other \in taskQueue
        /\ timeout[other] = "armed"
        /\ routed[third].workerId # routed[T].workerId
        /\ settlements[third] = <<TimeoutSettlement>>
        /\ workerMetrics[routed[third].workerId] = ZeroMetrics

====
